---- MODULE Spec2Model ----
(***************************************************************************)
(* Model of adapters/src/sensors/helpers/read_bme280.py: main() opens the  *)
(* I2C bus, reads the two calibration blocks, decodes the coefficients,    *)
(* triggers a forced measurement, reads the raw burst, compensates         *)
(* temperature, pressure and humidity in double precision, prints one      *)
(* reading and closes the bus in its finally clause.                       *)
(*                                                                         *)
(* Python floats are IEEE-754 binary64 values.  They are modelled exactly: *)
(* a float is a sign, a 53-bit significand and a binary exponent, and      *)
(* every arithmetic operation rounds to nearest, ties to even.  TLC's      *)
(* integers are 32 bits wide, so significands are natural numbers kept as  *)
(* sequences of 15-bit limbs, least significant limb first.                *)
(***************************************************************************)
EXTENDS Integers, Sequences, FiniteSets

(***************************************************************************)
(* Natural numbers of any size: little-endian sequences of limbs below     *)
(* LimbBase with no leading (most significant) zero limb; <<>> is zero.    *)
(***************************************************************************)
LimbBase == 2^15

RECURSIVE BNorm(_)
BNorm(a) ==
  IF a = <<>> THEN <<>>
  ELSE IF a[Len(a)] = 0 THEN BNorm(SubSeq(a, 1, Len(a) - 1))
  ELSE a

BFromInt(n) ==
  IF n = 0 THEN <<>>
  ELSE IF n < LimbBase THEN <<n>>
  ELSE IF n < LimbBase * LimbBase THEN <<n % LimbBase, n \div LimbBase>>
  ELSE <<n % LimbBase, (n \div LimbBase) % LimbBase, n \div (LimbBase * LimbBase)>>

RECURSIVE BAddC(_, _, _)
BAddC(a, b, c) ==
  IF a = <<>> /\ b = <<>> THEN (IF c = 0 THEN <<>> ELSE <<c>>)
  ELSE LET x == (IF a = <<>> THEN 0 ELSE Head(a))
                + (IF b = <<>> THEN 0 ELSE Head(b)) + c
       IN  <<x % LimbBase>>
           \o BAddC(IF a = <<>> THEN <<>> ELSE Tail(a),
                    IF b = <<>> THEN <<>> ELSE Tail(b), x \div LimbBase)

BAdd(a, b) == BAddC(a, b, 0)

RECURSIVE BSubB(_, _, _)
BSubB(a, b, c) ==
  IF a = <<>> THEN <<>>
  ELSE LET x == Head(a) - (IF b = <<>> THEN 0 ELSE Head(b)) - c
       IN  <<x % LimbBase>>
           \o BSubB(Tail(a), IF b = <<>> THEN <<>> ELSE Tail(b),
                    IF x < 0 THEN 1 ELSE 0)

\* a - b for a >= b
BSub(a, b) == BNorm(BSubB(a, b, 0))

RECURSIVE BCmpFrom(_, _, _)
BCmpFrom(a, b, i) ==
  IF i = 0 THEN 0
  ELSE IF a[i] # b[i] THEN (IF a[i] < b[i] THEN -1 ELSE 1)
  ELSE BCmpFrom(a, b, i - 1)

\* -1, 0 or 1 as a < b, a = b, a > b
BCmp(a, b) ==
  IF Len(a) # Len(b) THEN (IF Len(a) < Len(b) THEN -1 ELSE 1)
  ELSE BCmpFrom(a, b, Len(a))

RECURSIVE BMulSmallC(_, _, _)
BMulSmallC(a, k, c) ==
  IF a = <<>> THEN (IF c = 0 THEN <<>> ELSE <<c>>)
  ELSE LET x == Head(a) * k + c
       IN  <<x % LimbBase>> \o BMulSmallC(Tail(a), k, x \div LimbBase)

\* a * k for 0 <= k < LimbBase
BMulSmall(a, k) == IF k = 0 THEN <<>> ELSE BMulSmallC(a, k, 0)

BShlLimbs(a, n) == IF a = <<>> THEN <<>> ELSE [i \in 1..n |-> 0] \o a

RECURSIVE BMul(_, _)
BMul(a, b) ==
  IF a = <<>> \/ b = <<>> THEN <<>>
  ELSE BAdd(BMulSmall(a, Head(b)), BShlLimbs(BMul(a, Tail(b)), 1))

\* a * 2^n
BShl(a, n) == BShlLimbs(BMulSmall(a, 2^(n % 15)), n \div 15)

\* floor(a / 2^n)
BShr(a, n) ==
  LET d == n \div 15
      r == n % 15
      t == IF d >= Len(a) THEN <<>> ELSE SubSeq(a, d + 1, Len(a))
  IN  IF r = 0 THEN t
      ELSE BNorm([i \in 1..Len(t) |->
                   (t[i] \div 2^r)
                   + (IF i < Len(t) THEN (t[i + 1] % 2^r) * 2^(15 - r) ELSE 0)])

\* a mod 2^n
BLowBits(a, n) ==
  LET d == n \div 15
      r == n % 15
  IN  IF d >= Len(a) THEN a
      ELSE BNorm(SubSeq(a, 1, d) \o <<a[d + 1] % 2^r>>)

BitLen(a) ==
  IF a = <<>> THEN 0
  ELSE 15 * (Len(a) - 1)
       + (CHOOSE k \in 1..15 : 2^(k - 1) <= a[Len(a)] /\ a[Len(a)] < 2^k)

BIsOdd(a) == a # <<>> /\ a[1] % 2 = 1

\* floor(cur / d) for cur < d * LimbBase, found bit by bit from bit k down
RECURSIVE BDigit(_, _, _, _)
BDigit(cur, d, k, acc) ==
  IF k < 0 THEN acc
  ELSE IF BCmp(BMulSmall(d, acc + 2^k), cur) <= 0
       THEN BDigit(cur, d, k - 1, acc + 2^k)
       ELSE BDigit(cur, d, k - 1, acc)

\* schoolbook long division of the limbs n[i], ..., n[1] into d > 0, with r < d
\* the remainder carried in from the limbs above: <<quotient, remainder>>
RECURSIVE BDivLimbs(_, _, _, _)
BDivLimbs(n, d, i, r) ==
  IF i = 0 THEN <<<<>>, r>>
  ELSE LET cur  == BNorm(<<n[i]>> \o r)
           dg   == IF BCmp(cur, d) < 0 THEN 0 ELSE BDigit(cur, d, 14, 0)
           r2   == IF dg = 0 THEN cur ELSE BSub(cur, BMulSmall(d, dg))
           rest == BDivLimbs(n, d, i - 1, r2)
       IN  <<rest[1] \o <<dg>>, rest[2]>>

\* <<floor(n / d), n mod d>> for d > 0
BDivMod(n, d) ==
  LET qr == BDivLimbs(n, d, Len(n), <<>>)
  IN  <<BNorm(qr[1]), qr[2]>>

(***************************************************************************)
(* Python numbers.  A float is [ty |-> "float", s, m, e] with the value    *)
(* (-1)^s * m * 2^e, where m = <<>> (a signed zero, e = 0) or m has        *)
(* exactly 53 bits.  The int 0 that the degenerate branches assign is      *)
(* [ty |-> "int"] with the same fields.  Exponents of this program stay    *)
(* far inside the binary64 range, so overflow and subnormals do not occur. *)
(***************************************************************************)
FZero(s) == [ty |-> "float", s |-> s, m |-> <<>>, e |-> 0]

PyInt0 == [ty |-> "int", s |-> 0, m |-> <<>>, e |-> 0]

\* the ZeroDivisionError that float division raises on a zero divisor
ZeroDivisionError == [ty |-> "ZeroDivisionError", s |-> 0, m |-> <<>>, e |-> 0]

Sig52 == BShl(<<1>>, 52)

\* (-1)^s * M * 2^E rounded to the nearest float, ties to even
FRound(s, M, E) ==
  IF M = <<>> THEN FZero(s)
  ELSE LET L == BitLen(M) IN
    IF L <= 53
    THEN [ty |-> "float", s |-> s, m |-> BShl(M, 53 - L), e |-> E - (53 - L)]
    ELSE LET sh == L - 53
             q  == BShr(M, sh)
             c  == BCmp(BLowBits(M, sh), BShl(<<1>>, sh - 1))
             q2 == IF c = 1 \/ (c = 0 /\ BIsOdd(q)) THEN BAdd(q, <<1>>) ELSE q
         IN  IF BitLen(q2) = 54
             THEN [ty |-> "float", s |-> s, m |-> BShr(q2, 1), e |-> E + sh + 1]
             ELSE [ty |-> "float", s |-> s, m |-> q2, e |-> E + sh]

\* float(n) for a Python int |n| < 2^31: exact
IntToFloat(n) == FRound(IF n < 0 THEN 1 ELSE 0, BFromInt(IF n < 0 THEN -n ELSE n), 0)

\* the float 2.0^k
FPow2(k) == [ty |-> "float", s |-> 0, m |-> Sig52, e |-> k - 52]

IsZero(x) == x.m = <<>>

FNeg(x) == [x EXCEPT !.s = 1 - x.s]

\* x + y
FAdd(x, y) ==
  IF IsZero(x) /\ IsZero(y) THEN FZero(IF x.s = 1 /\ y.s = 1 THEN 1 ELSE 0)
  ELSE IF IsZero(x) THEN y
  ELSE IF IsZero(y) THEN x
  ELSE LET e  == IF x.e < y.e THEN x.e ELSE y.e
           X  == BShl(x.m, x.e - e)
           Y  == BShl(y.m, y.e - e)
           c  == BCmp(X, Y)
       IN  IF x.s = y.s THEN FRound(x.s, BAdd(X, Y), e)
           ELSE IF c = 0 THEN FZero(0)
           ELSE IF c > 0 THEN FRound(x.s, BSub(X, Y), e)
           ELSE FRound(y.s, BSub(Y, X), e)

\* x - y
FSub(x, y) == FAdd(x, FNeg(y))

\* x * y
FMul(x, y) ==
  IF IsZero(x) \/ IsZero(y) THEN FZero((x.s + y.s) % 2)
  ELSE FRound((x.s + y.s) % 2, BMul(x.m, y.m), x.e + y.e)

\* (-1)^s * (N / D) * 2^E rounded once, for naturals N, D > 0: the quotient
\* is taken to at least 56 bits and the remainder kept as a sticky bit
FRoundQuot(s, N, D, E) ==
  LET t  == IF 56 + BitLen(D) > BitLen(N) THEN 56 + BitLen(D) - BitLen(N) ELSE 0
      qr == BDivMod(BShl(N, t), D)
      M  == BAdd(BMulSmall(qr[1], 2), IF qr[2] = <<>> THEN <<>> ELSE <<1>>)
  IN  FRound(s, M, E - t - 1)

\* x / y: raises ZeroDivisionError on y = 0
FDiv(x, y) ==
  IF IsZero(y) THEN ZeroDivisionError
  ELSE IF IsZero(x) THEN FZero((x.s + y.s) % 2)
  ELSE IF y.m = Sig52
  THEN [ty |-> "float", s |-> (x.s + y.s) % 2, m |-> x.m, e |-> x.e - y.e - 52]
  ELSE FRoundQuot((x.s + y.s) % 2, x.m, y.m, x.e - y.e)

\* -1, 0 or 1 as x < y, x == y, x > y (the two zeros are equal)
FCmp(x, y) ==
  LET mag == IF x.e # y.e THEN (IF x.e < y.e THEN -1 ELSE 1) ELSE BCmp(x.m, y.m)
  IN  IF IsZero(x) /\ IsZero(y) THEN 0
      ELSE IF IsZero(x) THEN (IF y.s = 1 THEN 1 ELSE -1)
      ELSE IF IsZero(y) THEN (IF x.s = 1 THEN -1 ELSE 1)
      ELSE IF x.s # y.s THEN (IF x.s = 1 THEN -1 ELSE 1)
      ELSE IF x.s = 1 THEN -mag ELSE mag

\* min(a, b) and max(a, b) of two arguments: the first argument is kept
\* unless the second is strictly smaller (greater)
PyMin(a, b) == IF FCmp(b, a) < 0 THEN b ELSE a

PyMax(a, b) == IF FCmp(b, a) > 0 THEN b ELSE a

\* round(x, nd) for nd in {1, 2}: an int is returned as it is; a float is
\* rounded to the nearest multiple of 10^-nd of its exact value, ties to the
\* even digit, and that decimal is converted back to the nearest float
PyRound(x, nd) ==
  IF x.ty = "int" \/ IsZero(x) \/ x.e >= 0 THEN x
  ELSE LET scale == BFromInt(10^nd)
           N     == BMul(x.m, scale)
           sh    == -x.e
           q     == BShr(N, sh)
           c     == BCmp(BLowBits(N, sh), BShl(<<1>>, sh - 1))
           k     == IF c = 1 \/ (c = 0 /\ BIsOdd(q)) THEN BAdd(q, <<1>>) ELSE q
       IN  IF k = <<>> THEN FZero(x.s) ELSE FRoundQuot(x.s, k, scale, 0)

(***************************************************************************)
(* Python integer and sequence operations used by the decoding statements. *)
(* Python indexes from 0; At and Slice keep the source's indices.          *)
(***************************************************************************)
RECURSIVE BitOr(_, _)
BitOr(a, b) ==
  IF a = 0 THEN b
  ELSE IF b = 0 THEN a
  ELSE (IF a % 2 = 1 \/ b % 2 = 1 THEN 1 ELSE 0) + 2 * BitOr(a \div 2, b \div 2)

RECURSIVE BitAnd(_, _)
BitAnd(a, b) ==
  IF a = 0 \/ b = 0 THEN 0
  ELSE (IF a % 2 = 1 /\ b % 2 = 1 THEN 1 ELSE 0) + 2 * BitAnd(a \div 2, b \div 2)

Shl(a, n) == a * 2^n

Shr(a, n) == a \div 2^n

\* the outcome of evaluating an expression: a value, or an exception raised
Ok(v) == [raises |-> "none", value |-> v]

Raise(e) == [raises |-> e, value |-> 0]

\* seq[i]: IndexError when i is past the end
At(seq, i) == IF i < Len(seq) THEN Ok(seq[i + 1]) ELSE Raise("IndexError")

\* seq[a:b]: never raises, a slice past the end is cut short
Slice(seq, a, b) == SubSeq(seq, a + 1, IF b < Len(seq) THEN b ELSE Len(seq))

\* fault variant of UnpackShort: the pair read as unsigned ('<H')
UnpackShortUnsigned(b) ==
  IF Len(b) # 2 THEN Raise("struct.error")
  ELSE Ok(b[1] + 256 * b[2])

\* struct.unpack('<h', bytes(b))[0]: little-endian two's complement 16 bits;
\* struct.error unless b holds exactly 2 bytes
UnpackShort(b) ==
  IF Len(b) # 2 THEN Raise("struct.error")
  ELSE LET u == b[1] + 256 * b[2]
       IN  Ok(IF u >= 32768 THEN u - 65536 ELSE u)

\* struct.unpack('<b', bytes(b))[0]: one signed byte
UnpackSChar(b) ==
  IF Len(b) # 1 THEN Raise("struct.error")
  ELSE Ok(IF b[1] >= 128 THEN b[1] - 256 ELSE b[1])

\* lo | (hi << 8) of two indexed bytes, the left operand evaluated first
OrShl8(lo, hi) ==
  IF lo.raises # "none" THEN lo
  ELSE IF hi.raises # "none" THEN hi
  ELSE Ok(BitOr(lo.value, Shl(hi.value, 8)))

(***************************************************************************)
(* Lines 28-49: one operator per calibration coefficient.                  *)
(***************************************************************************)
DigT1(cal1) == OrShl8(At(cal1, 0), At(cal1, 1))

DigT2(cal1) == UnpackShort(Slice(cal1, 2, 4))

DigT3(cal1) == UnpackShort(Slice(cal1, 4, 6))

DigP1(cal1) == OrShl8(At(cal1, 6), At(cal1, 7))

DigP2(cal1) == UnpackShort(Slice(cal1, 8, 10))

DigP3(cal1) == UnpackShort(Slice(cal1, 10, 12))

DigP4(cal1) == UnpackShort(Slice(cal1, 12, 14))

DigP5(cal1) == UnpackShort(Slice(cal1, 14, 16))

DigP6(cal1) == UnpackShort(Slice(cal1, 16, 18))

DigP7(cal1) == UnpackShort(Slice(cal1, 18, 20))

DigP8(cal1) == UnpackShort(Slice(cal1, 20, 22))

DigP9(cal1) == UnpackShort(Slice(cal1, 22, 24))

DigH1(cal1) == At(cal1, 25)

DigH2(cal2) == UnpackShort(Slice(cal2, 0, 2))

DigH3(cal2) == At(cal2, 2)

\* (cal2[3] << 4) | (cal2[4] & 0x0F)
DigH4(cal2) ==
  LET a == At(cal2, 3)
      b == At(cal2, 4)
  IN  IF a.raises # "none" THEN a
      ELSE IF b.raises # "none" THEN b
      ELSE Ok(BitOr(Shl(a.value, 4), BitAnd(b.value, 15)))

\* fault variant of DigH5: the shared byte's low nibble taken again
DigH5LowNibble(cal2) ==
  LET a == At(cal2, 5)
      b == At(cal2, 4)
  IN  IF a.raises # "none" THEN a
      ELSE IF b.raises # "none" THEN b
      ELSE Ok(BitOr(Shl(a.value, 4), BitAnd(b.value, 15)))

\* (cal2[5] << 4) | ((cal2[4] >> 4) & 0x0F)
DigH5(cal2) ==
  LET a == At(cal2, 5)
      b == At(cal2, 4)
  IN  IF a.raises # "none" THEN a
      ELSE IF b.raises # "none" THEN b
      ELSE Ok(BitOr(Shl(a.value, 4), BitAnd(Shr(b.value, 4), 15)))

\* struct.unpack('<b', bytes([cal2[6]]))[0]
DigH6(cal2) ==
  LET a == At(cal2, 6)
  IN  IF a.raises # "none" THEN a ELSE UnpackSChar(<<a.value>>)

\* the coefficients in the order lines 28-49 assign them
DecodeOrder ==
  <<"dig_T1", "dig_T2", "dig_T3", "dig_P1", "dig_P2", "dig_P3", "dig_P4",
    "dig_P5", "dig_P6", "dig_P7", "dig_P8", "dig_P9", "dig_H1", "dig_H2",
    "dig_H3", "dig_H4", "dig_H5", "dig_H6">>

\* the outcomes of the eighteen assignments, in that order
DecodeStatements(c1, c2) ==
  <<DigT1(c1), DigT2(c1), DigT3(c1), DigP1(c1), DigP2(c1), DigP3(c1), DigP4(c1),
    DigP5(c1), DigP6(c1), DigP7(c1), DigP8(c1), DigP9(c1), DigH1(c1), DigH2(c2),
    DigH3(c2), DigH4(c2), DigH5(c2), DigH6(c2)>>

\* Running lines 28-49: the statements execute in order and stop at the first
\* that raises; dig holds the coefficients assigned until then.
Decode(c1, c2) ==
  LET st  == DecodeStatements(c1, c2)
      bad == {i \in 1..Len(st) : st[i].raises # "none"}
      n   == IF bad = {} THEN Len(st) + 1
             ELSE CHOOSE i \in bad : \A j \in bad : i <= j
  IN  [raises |-> IF bad = {} THEN "none" ELSE st[n].raises,
       dig    |-> [name \in {DecodeOrder[i] : i \in 1..(n - 1)} |->
                     st[CHOOSE i \in 1..Len(st) : DecodeOrder[i] = name].value]]

(***************************************************************************)
(* The device.  read_i2c_block_data(address, register, length) returns     *)
(* `length` bytes of the sensor's memory or raises OSError.  The memory    *)
(* contents below are the calibration of the vendor datasheet's worked     *)
(* example and variations of it, and raw bursts around its sample.         *)
(***************************************************************************)
\* T1=27504 T2=26435 T3=-1000 P1=36477 P2=-10685 P3=3024 P4=2855 P5=140
\* P6=-7 P7=15500 P8=-14600 P9=6000 H1=75
Cal1Datasheet ==
  <<112, 107, 67, 103, 24, 252, 125, 142, 67, 214, 208, 11, 39, 11, 140, 0,
    249, 255, 140, 60, 248, 198, 112, 23, 0, 75>>

\* the same with P1 = 0
Cal1P1Zero == [Cal1Datasheet EXCEPT ![7] = 0, ![8] = 0]

\* the same with T1=0 T2=2400 T3=0: t_fine = 76800 at raw_temp = 2^19
Cal1Flat == [Cal1Datasheet EXCEPT ![1] = 0, ![2] = 0, ![3] = 96, ![4] = 9,
                                  ![5] = 0, ![6] = 0]

\* T1=0 T2=32767 T3=8002 P2=-32768 P3=0: at raw_temp = 2^19 the factor
\* 1 + var1/32768 of line 74 is 0 although P1 = 36477
Cal1Cancel == [Cal1Datasheet EXCEPT ![1] = 0, ![2] = 0, ![3] = 255, ![4] = 127,
                                    ![5] = 66, ![6] = 31, ![9] = 0, ![10] = 128,
                                    ![11] = 0, ![12] = 0]

Cal1Blocks == {Cal1Datasheet, Cal1P1Zero, Cal1Flat, Cal1Cancel}

\* H2=367 H3=0 H4=301 H5=50 H6=30
Cal2Typical == <<111, 1, 0, 18, 45, 3, 30>>

\* H2=32767 H3=255 H4=0 H5=0 H6=127
Cal2Steep == <<255, 127, 255, 0, 0, 0, 127>>

\* H2=-32768 H3=0 H4=301 H5=50 H6=-128
Cal2Negative == <<0, 128, 0, 18, 45, 3, 128>>

Cal2Blocks == {Cal2Typical, Cal2Steep, Cal2Negative}

\* raw_pressure = 415148; raw_temp 519888 or 2^19; raw_humidity 0, 30000, 65535
RawBursts ==
  {<<101, 90, 192, t[1], t[2], 0, h[1], h[2]>> :
     t \in {<<126, 237>>, <<128, 0>>}, h \in {<<0, 0>>, <<117, 48>>, <<255, 255>>}}

(***************************************************************************)
(* State of one run of main().                                             *)
(***************************************************************************)
VARIABLES
  pc,       \* the line main() executes next ("exit": the process has ended)
  bus,      \* "none" before SMBus(bus_num), then "open", then "closed"
  busLog,   \* the calls made on the bus, in order
  cal1,     \* line 24
  cal2,     \* line 25
  dig,      \* the dig_* locals assigned so far
  raw,      \* line 57
  loc,      \* the other locals of lines 58-93
  out,      \* the readings printed to stdout
  err,      \* the exception propagating out of main(), "none" if none
  trace     \* the lines executed so far, in order

vars == <<pc, bus, busLog, cal1, cal2, dig, raw, loc, out, err, trace>>

\* a float local that no statement has assigned yet
Unbound == [ty |-> "unbound", s |-> 0, m |-> <<>>, e |-> 0]

\* the statements of main() from line 21 on, in textual order
ProgramOrder ==
  <<"L21", "L24", "L25", "L28", "L52", "L53", "L54", "L57", "L58", "L63", "L64",
    "L65", "L66", "L69", "L70", "L71", "L72", "L73", "L74", "L75", "L76", "L77",
    "L78", "L79", "L80", "L82", "L85", "L86", "L87", "L90", "L91", "L93", "L95",
    "L101", "exit">>

\* fault variant of NextLine: the raw burst (line 57) read right after the
\* decoding, before the oversampling and trigger writes of lines 52-54
NextLineRawFirst(l) ==
  CASE l = "L80" -> "L85"
    [] l = "L91" -> "L95"
    [] l = "L28" -> "L57"
    [] l = "L57" -> "L52"
    [] l = "L54" -> "L58"
    [] OTHER -> ProgramOrder[(CHOOSE i \in 1..Len(ProgramOrder) : ProgramOrder[i] = l) + 1]

\* the statement control reaches after statement l completes normally: the
\* next one in the text, except that the end of an if-suite skips the else
NextLine(l) ==
  CASE l = "L80" -> "L85"
    [] l = "L91" -> "L95"
    [] OTHER -> ProgramOrder[(CHOOSE i \in 1..Len(ProgramOrder) : ProgramOrder[i] = l) + 1]

\* fault variant of PressureGuard: the division branch taken unconditionally
PressureGuardAlways(v) == TRUE

\* line 75: if var1 != 0
PressureGuard(v) == ~IsZero(v)

\* fault variant of HumidityGuard: if h > 0
HumidityGuardPositive(v) == v.s = 0 /\ ~IsZero(v)

\* line 86: if h != 0
HumidityGuard(v) == ~IsZero(v)

\* fault variant of HumidityClamp: min(100.0, h), the lower clamp missing
HumidityClampUpperOnly(v) == PyMin(IntToFloat(100), v)

\* line 91: max(0.0, min(100.0, h))
HumidityClamp(v) == PyMax(FZero(0), PyMin(IntToFloat(100), v))

F(n) == IntToFloat(n)

Init ==
  /\ pc = "L21"
  /\ bus = "none"
  /\ busLog = <<>>
  /\ cal1 = <<>>
  /\ cal2 = <<>>
  /\ dig = <<>>
  /\ raw = <<>>
  /\ loc = [raw_pressure |-> -1, raw_temp |-> -1, raw_humidity |-> -1,
            var1 |-> Unbound, var2 |-> Unbound, t_fine |-> Unbound,
            temperature |-> Unbound, pressure |-> Unbound, h |-> Unbound,
            humidity |-> Unbound]
  /\ out = <<>>
  /\ err = "none"
  /\ trace = <<>>

\* control moves to line `to`
Step(to) == pc' = to /\ trace' = Append(trace, pc)

\* an assignment to a local of lines 58-93
Assign(name, value) ==
  /\ loc' = [loc EXCEPT ![name] = value]
  /\ Step(NextLine(pc))
  /\ UNCHANGED <<bus, busLog, cal1, cal2, dig, raw, out, err>>

\* an exception raised inside the try suite: control goes to the finally clause
RaiseInTry(e) ==
  /\ err' = e
  /\ Step("L101")

\* line 21: bus = smbus2.SMBus(bus_num)
L21 ==
  /\ pc = "L21"
  /\ bus' = "open"
  /\ Step(NextLine(pc))
  /\ UNCHANGED <<busLog, cal1, cal2, dig, raw, loc, out, err>>

\* line 21 raising (no such bus, no permission): before the try statement
L21_OSError ==
  /\ pc = "L21"
  /\ err' = "OSError"
  /\ Step("exit")
  /\ UNCHANGED <<bus, busLog, cal1, cal2, dig, raw, loc, out>>

BusCall(op, reg, arg) == busLog' = Append(busLog, [op |-> op, reg |-> reg, arg |-> arg, on |-> bus])

\* a bus transfer that fails
BusOSError(line, op, reg, arg) ==
  /\ pc = line
  /\ BusCall(op, reg, arg)
  /\ RaiseInTry("OSError")
  /\ UNCHANGED <<bus, cal1, cal2, dig, raw, loc, out>>

\* line 24: cal1 = bus.read_i2c_block_data(address, 0x88, 26)
L24 ==
  /\ pc = "L24"
  /\ \E block \in Cal1Blocks : cal1' = block
  /\ BusCall("read", 136, 26)
  /\ Step(NextLine(pc))
  /\ UNCHANGED <<bus, cal2, dig, raw, loc, out, err>>

L24_OSError == BusOSError("L24", "read", 136, 26)

\* line 25: cal2 = bus.read_i2c_block_data(address, 0xE1, 7)
L25 ==
  /\ pc = "L25"
  /\ \E block \in Cal2Blocks : cal2' = block
  /\ BusCall("read", 225, 7)
  /\ Step(NextLine(pc))
  /\ UNCHANGED <<bus, cal1, dig, raw, loc, out, err>>

L25_OSError == BusOSError("L25", "read", 225, 7)

\* lines 28-49: the calibration coefficients
L28 ==
  /\ pc = "L28"
  /\ LET d == Decode(cal1, cal2)
     IN  /\ dig' = d.dig
         /\ IF d.raises = "none"
            THEN Step(NextLine(pc)) /\ err' = err
            ELSE RaiseInTry(d.raises)
  /\ UNCHANGED <<bus, busLog, cal1, cal2, raw, loc, out>>

\* line 52: bus.write_byte_data(address, 0xF2, 0x01)
L52 ==
  /\ pc = "L52"
  /\ BusCall("write", 242, 1)
  /\ Step(NextLine(pc))
  /\ UNCHANGED <<bus, cal1, cal2, dig, raw, loc, out, err>>

L52_OSError == BusOSError("L52", "write", 242, 1)

\* line 53: bus.write_byte_data(address, 0xF4, 0x25)
L53 ==
  /\ pc = "L53"
  /\ BusCall("write", 244, 37)
  /\ Step(NextLine(pc))
  /\ UNCHANGED <<bus, cal1, cal2, dig, raw, loc, out, err>>

L53_OSError == BusOSError("L53", "write", 244, 37)

\* line 54: time.sleep(0.05)
L54 ==
  /\ pc = "L54"
  /\ Step(NextLine(pc))
  /\ UNCHANGED <<bus, busLog, cal1, cal2, dig, raw, loc, out, err>>

\* line 57: raw = bus.read_i2c_block_data(address, 0xF7, 8)
L57 ==
  /\ pc = "L57"
  /\ \E burst \in RawBursts : raw' = burst
  /\ BusCall("read", 247, 8)
  /\ Step(NextLine(pc))
  /\ UNCHANGED <<bus, cal1, cal2, dig, loc, out, err>>

L57_OSError == BusOSError("L57", "read", 247, 8)

\* lines 58-60: raw_pressure, raw_temp, raw_humidity
L58 ==
  /\ pc = "L58"
  /\ loc' = [loc EXCEPT
       !.raw_pressure = BitOr(BitOr(Shl(raw[1], 12), Shl(raw[2], 4)), Shr(raw[3], 4)),
       !.raw_temp     = BitOr(BitOr(Shl(raw[4], 12), Shl(raw[5], 4)), Shr(raw[6], 4)),
       !.raw_humidity = BitOr(Shl(raw[7], 8), raw[8])]
  /\ Step(NextLine(pc))
  /\ UNCHANGED <<bus, busLog, cal1, cal2, dig, raw, out, err>>

\* a coefficient or raw count converted to float by a mixed int/float operation
D(name) == IntToFloat(dig[name])

\* line 63: var1 = (raw_temp / 16384.0 - dig_T1 / 1024.0) * dig_T2
L63 ==
  /\ pc = "L63"
  /\ Assign("var1", FMul(FSub(FDiv(F(loc.raw_temp), F(16384)),
                              FDiv(D("dig_T1"), F(1024))),
                         D("dig_T2")))

\* line 64: var2 = ((raw_temp / 131072.0 - dig_T1 / 8192.0) ** 2) * dig_T3
\* The base is a multiple of 2^-17 below 2^4 in magnitude, so its square has at
\* most 42 significant bits and pow() returns it exactly: x ** 2 is x * x.
L64 ==
  /\ pc = "L64"
  /\ LET x == FSub(FDiv(F(loc.raw_temp), F(131072)), FDiv(D("dig_T1"), F(8192)))
     IN  Assign("var2", FMul(FMul(x, x), D("dig_T3")))

\* line 65: t_fine = var1 + var2
L65 ==
  /\ pc = "L65"
  /\ Assign("t_fine", FAdd(loc.var1, loc.var2))

\* line 66: temperature = t_fine / 5120.0
L66 ==
  /\ pc = "L66"
  /\ Assign("temperature", FDiv(loc.t_fine, F(5120)))

\* line 69: var1 = t_fine / 2.0 - 64000.0
L69 ==
  /\ pc = "L69"
  /\ Assign("var1", FSub(FDiv(loc.t_fine, F(2)), F(64000)))

\* line 70: var2 = var1 * var1 * dig_P6 / 32768.0
L70 ==
  /\ pc = "L70"
  /\ Assign("var2", FDiv(FMul(FMul(loc.var1, loc.var1), D("dig_P6")), F(32768)))

\* line 71: var2 = var2 + var1 * dig_P5 * 2.0
L71 ==
  /\ pc = "L71"
  /\ Assign("var2", FAdd(loc.var2, FMul(FMul(loc.var1, D("dig_P5")), F(2))))

\* line 72: var2 = var2 / 4.0 + dig_P4 * 65536.0
L72 ==
  /\ pc = "L72"
  /\ Assign("var2", FAdd(FDiv(loc.var2, F(4)), FMul(D("dig_P4"), F(65536))))

\* line 73: var1 = (dig_P3 * var1 * var1 / 524288.0 + dig_P2 * var1) / 524288.0
L73 ==
  /\ pc = "L73"
  /\ Assign("var1",
            FDiv(FAdd(FDiv(FMul(FMul(D("dig_P3"), loc.var1), loc.var1), F(524288)),
                      FMul(D("dig_P2"), loc.var1)),
                 F(524288)))

\* line 74: var1 = (1.0 + var1 / 32768.0) * dig_P1
L74 ==
  /\ pc = "L74"
  /\ Assign("var1", FMul(FAdd(F(1), FDiv(loc.var1, F(32768))), D("dig_P1")))

\* line 75: if var1 != 0:
L75 ==
  /\ pc = "L75"
  /\ Step(IF PressureGuard(loc.var1) THEN "L76" ELSE "L82")
  /\ UNCHANGED <<bus, busLog, cal1, cal2, dig, raw, loc, out, err>>

\* line 76: pressure = 1048576.0 - raw_pressure
L76 ==
  /\ pc = "L76"
  /\ Assign("pressure", FSub(F(1048576), F(loc.raw_pressure)))

\* line 77: pressure = ((pressure - var2 / 4096.0) * 6250.0) / var1
\* The one division by a computed value: it raises when var1 is zero.
L77 ==
  /\ pc = "L77"
  /\ LET q == FDiv(FMul(FSub(loc.pressure, FDiv(loc.var2, F(4096))), F(6250)),
                   loc.var1)
     IN  IF q.ty = "ZeroDivisionError"
         THEN /\ RaiseInTry("ZeroDivisionError")
              /\ UNCHANGED <<bus, busLog, cal1, cal2, dig, raw, loc, out>>
         ELSE Assign("pressure", q)

\* line 78: var1 = dig_P9 * pressure * pressure / 2147483648.0
L78 ==
  /\ pc = "L78"
  /\ Assign("var1", FDiv(FMul(FMul(D("dig_P9"), loc.pressure), loc.pressure),
                         FPow2(31)))

\* line 79: var2 = pressure * dig_P8 / 32768.0
L79 ==
  /\ pc = "L79"
  /\ Assign("var2", FDiv(FMul(loc.pressure, D("dig_P8")), F(32768)))

\* line 80: pressure = (pressure + (var1 + var2 + dig_P7) / 16.0) / 100.0
L80 ==
  /\ pc = "L80"
  /\ Assign("pressure",
            FDiv(FAdd(loc.pressure,
                      FDiv(FAdd(FAdd(loc.var1, loc.var2), D("dig_P7")), F(16))),
                 F(100)))

\* line 82: pressure = 0
L82 ==
  /\ pc = "L82"
  /\ Assign("pressure", PyInt0)

\* line 85: h = t_fine - 76800.0
L85 ==
  /\ pc = "L85"
  /\ Assign("h", FSub(loc.t_fine, F(76800)))

\* line 86: if h != 0:
L86 ==
  /\ pc = "L86"
  /\ Step(IF HumidityGuard(loc.h) THEN "L87" ELSE "L93")
  /\ UNCHANGED <<bus, busLog, cal1, cal2, dig, raw, loc, out, err>>

\* lines 87-89: h = (raw_humidity - (dig_H4 * 64.0 + dig_H5 / 16384.0 * h)) *
\*   (dig_H2 / 65536.0 * (1.0 + dig_H6 / 67108864.0 * h *
\*   (1.0 + dig_H3 / 67108864.0 * h)))
L87 ==
  /\ pc = "L87"
  /\ LET a == FSub(F(loc.raw_humidity),
                   FAdd(FMul(D("dig_H4"), F(64)),
                        FMul(FDiv(D("dig_H5"), F(16384)), loc.h)))
         c == FAdd(F(1), FMul(FDiv(D("dig_H3"), F(67108864)), loc.h))
         b == FMul(FDiv(D("dig_H2"), F(65536)),
                   FAdd(F(1), FMul(FMul(FDiv(D("dig_H6"), F(67108864)), loc.h), c)))
     IN  Assign("h", FMul(a, b))

\* line 90: h = h * (1.0 - dig_H1 * h / 524288.0)
L90 ==
  /\ pc = "L90"
  /\ Assign("h", FMul(loc.h, FSub(F(1), FDiv(FMul(D("dig_H1"), loc.h), F(524288)))))

\* line 91: humidity = max(0.0, min(100.0, h))
L91 ==
  /\ pc = "L91"
  /\ Assign("humidity", HumidityClamp(loc.h))

\* line 93: humidity = 0
L93 ==
  /\ pc = "L93"
  /\ Assign("humidity", PyInt0)

\* lines 95-99: print(json.dumps({...})) of the three rounded values
Reading(l) ==
  [temperature |-> PyRound(l.temperature, 1),
   humidity    |-> PyRound(l.humidity, 1),
   pressure    |-> PyRound(l.pressure, 2)]

L95 ==
  /\ pc = "L95"
  /\ out' = Append(out, Reading(loc))
  /\ Step(NextLine(pc))
  /\ UNCHANGED <<bus, busLog, cal1, cal2, dig, raw, loc, err>>

\* fault variant of L101: the reading printed in the finally clause too
L101PrintInFinally ==
  /\ pc = "L101"
  /\ bus' = "closed"
  /\ BusCall("close", 0, 0)
  /\ out' = Append(out, Reading(loc))
  /\ Step("exit")
  /\ UNCHANGED <<cal1, cal2, dig, raw, loc, err>>

\* fault variant of L101: bus.close() as the last statement of the try suite,
\* so that an exception skips it
L101CloseOnSuccessOnly ==
  /\ pc = "L101"
  /\ IF err = "none"
     THEN bus' = "closed" /\ BusCall("close", 0, 0)
     ELSE UNCHANGED <<bus, busLog>>
  /\ Step("exit")
  /\ UNCHANGED <<cal1, cal2, dig, raw, loc, out, err>>

\* lines 100-101: finally: bus.close(); then main() returns, or the pending
\* exception leaves it
L101 ==
  /\ pc = "L101"
  /\ bus' = "closed"
  /\ BusCall("close", 0, 0)
  /\ Step(NextLine(pc))
  /\ UNCHANGED <<cal1, cal2, dig, raw, loc, out, err>>

Next ==
  \/ L21 \/ L21_OSError
  \/ L24 \/ L24_OSError
  \/ L25 \/ L25_OSError
  \/ L28
  \/ L52 \/ L52_OSError
  \/ L53 \/ L53_OSError
  \/ L54
  \/ L57 \/ L57_OSError
  \/ L58
  \/ L63 \/ L64 \/ L65 \/ L66
  \/ L69 \/ L70 \/ L71 \/ L72 \/ L73 \/ L74 \/ L75
  \/ L76 \/ L77 \/ L78 \/ L79 \/ L80 \/ L82
  \/ L85 \/ L86 \/ L87 \/ L90 \/ L91 \/ L93
  \/ L95
  \/ L101

Spec == Init /\ [][Next]_vars

(***************************************************************************)
(* Decoding as a function of its two blocks.  SpecDecode starts main() at  *)
(* line 28 with the blocks lines 24-25 stored and runs lines 28-49 and,    *)
(* when they raise, the finally clause.  The blocks cover every field with *)
(* bytes on both sides of the sign boundary, and lengths around the 26 and *)
(* 7 bytes requested (what a bus object that returns a shorter or longer   *)
(* list hands to the decoding statements).                                 *)
(***************************************************************************)
\* how far a block's length may differ from the length requested
LenSlack == 1

DecodeBytes == {0, 1, 127, 128, 255}

NibbleBytes == {0, 1, 15, 16, 90, 127, 128, 165, 240, 255}

\* base with bytes k and k+1 (Python indices) replaced, cut or zero-extended
\* to n bytes
Pattern(base, k, lo, hi, n) ==
  [i \in 1..n |-> IF i = k + 1 THEN lo
                  ELSE IF i = k + 2 THEN hi
                  ELSE IF i <= Len(base) THEN base[i] ELSE 0]

Cal1Patterns ==
  {Pattern(Cal1Datasheet, k, lo, hi, n) :
     k \in 0..24, lo \in DecodeBytes, hi \in DecodeBytes,
     n \in (26 - LenSlack)..(26 + LenSlack)}

Cal2Patterns ==
  {Pattern(Cal2Typical, k, lo, hi, n) :
     k \in 0..5, lo \in NibbleBytes, hi \in NibbleBytes,
     n \in (7 - LenSlack)..(7 + LenSlack)}

InitDecode ==
  /\ pc = "L28"
  /\ bus = "open"
  /\ busLog = <<[op |-> "read", reg |-> 136, arg |-> 26, on |-> "open"],
                [op |-> "read", reg |-> 225, arg |-> 7, on |-> "open"]>>
  /\ \/ cal1 \in Cal1Patterns /\ cal2 = Cal2Typical
     \/ cal1 = Cal1Datasheet /\ cal2 \in Cal2Patterns
  /\ dig = <<>>
  /\ raw = <<>>
  /\ loc = [raw_pressure |-> -1, raw_temp |-> -1, raw_humidity |-> -1,
            var1 |-> Unbound, var2 |-> Unbound, t_fine |-> Unbound,
            temperature |-> Unbound, pressure |-> Unbound, h |-> Unbound,
            humidity |-> Unbound]
  /\ out = <<>>
  /\ err = "none"
  /\ trace = <<"L21", "L24", "L25">>

NextDecode == L28 \/ L101

SpecDecode == InitDecode /\ [][NextDecode]_vars

(***************************************************************************)
(* Properties.                                                             *)
(***************************************************************************)
InTrace(l) == \E i \in 1..Len(trace) : trace[i] = l

Calls(op, reg) == {i \in 1..Len(busLog) : busLog[i].op = op /\ busLog[i].reg = reg}

\* the little-endian pair lo, hi read as two's complement
Signed16(lo, hi) == IF lo + 256 * hi >= 32768 THEN lo + 256 * hi - 65536 ELSE lo + 256 * hi

\* b with its high (low) nibble replaced by n
WithHighNibble(b, n) == 16 * n + (b % 16)

WithLowNibble(b, n) == 16 * (b \div 16) + n

\* C1: whenever block A is not 26 bytes long or block B is not 7 bytes long,
\* decoding fails with MalformedCalibration and no coefficient is produced.
\* (Stated as the claim has it; the code has no length check.)
C1_MalformedCalibration ==
  (pc # "L28" /\ (Len(cal1) # 26 \/ Len(cal2) # 7))
    => (err = "MalformedCalibration" /\ dig = <<>>)

\* C2: every humidity value the run holds or prints lies in [0, 100], on the
\* clamped branch and on the degenerate branch.
C2_HumidityInRange ==
  /\ loc.humidity.ty # "unbound"
       => /\ FCmp(loc.humidity, FZero(0)) >= 0
          /\ FCmp(loc.humidity, IntToFloat(100)) <= 0
  /\ \A i \in 1..Len(out) :
       /\ FCmp(out[i].humidity, FZero(0)) >= 0
       /\ FCmp(out[i].humidity, IntToFloat(100)) <= 0

\* a reading printed although the polynomial's result was above 100
C2_Witness ==
  /\ out # <<>>
  /\ InTrace("L91")
  /\ FCmp(loc.h, IntToFloat(100)) > 0
  /\ FCmp(out[1].humidity, IntToFloat(100)) = 0

\* C3: when the denominator var1 of line 74 is zero the pressure is the int
\* 0 and line 77 does not run; the division of line 77 runs only with
\* var1 # 0, and no ZeroDivisionError is ever raised.
C3_PressureDegenerate ==
  /\ err # "ZeroDivisionError"
  /\ pc \in {"L76", "L77"} => ~IsZero(loc.var1)
  /\ pc = "L82" => IsZero(loc.var1)
  /\ (InTrace("L82") /\ pc # "L82")
       => /\ loc.pressure = PyInt0
          /\ ~InTrace("L76") /\ ~InTrace("L77")
          /\ \A i \in 1..Len(out) : out[i].pressure = PyInt0

\* a reading with pressure 0 printed for a zero denominator although P1 # 0
C3_Witness ==
  /\ out # <<>>
  /\ InTrace("L82")
  /\ dig["dig_P1"] # 0
  /\ out[1].pressure = PyInt0

\* C4: once humidity is assigned: if t_fine == 76800.0 it is the int 0 and
\* the polynomial (lines 87-91) did not run, whatever raw_humidity and
\* h1..h6 are; otherwise the polynomial ran and humidity is its clamped value.
C4_HumidityDegenerate ==
  loc.humidity.ty # "unbound" =>
    IF FCmp(loc.t_fine, IntToFloat(76800)) = 0
    THEN /\ loc.humidity = PyInt0
         /\ ~InTrace("L87") /\ ~InTrace("L90") /\ ~InTrace("L91")
         /\ \A i \in 1..Len(out) : out[i].humidity = PyInt0
    ELSE /\ InTrace("L87") /\ InTrace("L90") /\ InTrace("L91")
         /\ ~InTrace("L93")
         /\ loc.humidity = PyMax(FZero(0), PyMin(IntToFloat(100), loc.h))

\* humidity 0 printed at t_fine == 76800.0 with the largest raw humidity and
\* a calibration other than the typical one
C4_Witness ==
  /\ out # <<>>
  /\ FCmp(loc.t_fine, IntToFloat(76800)) = 0
  /\ loc.raw_humidity = 65535
  /\ dig["dig_H2"] = 32767
  /\ out[1].humidity = PyInt0

\* C5: for a 7-byte block B, h4 = (B[3] << 4) | (B[4] & 0x0F) and
\* h5 = (B[5] << 4) | ((B[4] >> 4) & 0x0F): both are in 0..4095, h4 does not
\* depend on the high nibble of B[4] and h5 does not depend on its low nibble.
C5_NibbleOverlap ==
  (pc = "L52" /\ Len(cal2) = 7) =>
    /\ dig["dig_H4"] = 16 * cal2[4] + (cal2[5] % 16)
    /\ dig["dig_H5"] = 16 * cal2[6] + (cal2[5] \div 16)
    /\ dig["dig_H4"] \in 0..4095
    /\ dig["dig_H5"] \in 0..4095
    /\ \A n \in 0..15 :
         /\ DigH4([cal2 EXCEPT ![5] = WithHighNibble(cal2[5], n)]) = Ok(dig["dig_H4"])
         /\ DigH5([cal2 EXCEPT ![5] = WithLowNibble(cal2[5], n)]) = Ok(dig["dig_H5"])
         /\ (n # cal2[5] % 16) =>
              DigH4([cal2 EXCEPT ![5] = WithLowNibble(cal2[5], n)]) # Ok(dig["dig_H4"])
         /\ (n # cal2[5] \div 16) =>
              DigH5([cal2 EXCEPT ![5] = WithHighNibble(cal2[5], n)]) # Ok(dig["dig_H5"])

\* B[4] = 0xA5 decoded: 5 went to h4 and 0xA to h5
C5_Witness ==
  /\ pc = "L52"
  /\ Len(cal2) = 7
  /\ cal2[5] = 165
  /\ cal2[4] = 255
  /\ dig["dig_H4"] = 4085
  /\ dig["dig_H5"] % 16 = 10

\* C6: for a 26-byte block A and a 7-byte block B: t1 and p1 are the unsigned
\* little-endian pairs A[0..1], A[6..7]; t2, t3, p2..p9 and h2 are the pairs
\* A[2..5], A[8..23], B[0..1] in two's complement; h1 = A[25] and h3 = B[2]
\* are unsigned bytes; h6 = B[6] is a signed byte.
C6_FieldLayout ==
  (pc = "L52" /\ Len(cal1) = 26 /\ Len(cal2) = 7) =>
    /\ dig["dig_T1"] = cal1[1] + 256 * cal1[2] /\ dig["dig_T1"] \in 0..65535
    /\ dig["dig_P1"] = cal1[7] + 256 * cal1[8] /\ dig["dig_P1"] \in 0..65535
    /\ dig["dig_T2"] = Signed16(cal1[3], cal1[4])
    /\ dig["dig_T3"] = Signed16(cal1[5], cal1[6])
    /\ \A j \in 2..9 :
         dig[DecodeOrder[3 + j]] = Signed16(cal1[2 * j + 5], cal1[2 * j + 6])
    /\ dig["dig_H2"] = Signed16(cal2[1], cal2[2])
    /\ \A n \in {"dig_T2", "dig_T3", "dig_P2", "dig_P3", "dig_P4", "dig_P5",
                 "dig_P6", "dig_P7", "dig_P8", "dig_P9", "dig_H2"} :
         dig[n] \in -32768..32767
    /\ dig["dig_H1"] = cal1[26]
    /\ dig["dig_H3"] = cal2[3]
    /\ dig["dig_H6"] = (IF cal2[7] >= 128 THEN cal2[7] - 256 ELSE cal2[7])
    /\ dig["dig_H6"] \in -128..127

\* both blocks decoded with an unsigned field above 32767, a negative 16-bit
\* field and a negative h6
C6_Witness ==
  /\ pc = "L52"
  /\ Len(cal1) = 26 /\ Len(cal2) = 7
  /\ dig["dig_P1"] > 32767
  /\ dig["dig_T3"] < 0
  /\ dig["dig_H6"] < 0

\* the lines whose completion the emission must follow
Milestones ==
  {"L24", "L25", "L28", "L52", "L53", "L57", "L65", "L66", "L80", "L82", "L91",
   "L93", "L95"}

IsMilestone(l) == l \in Milestones

\* C7: at most one reading is printed, and only by a run in which nothing
\* failed and the calibration reads, the trigger, the raw burst read and the
\* three compensations completed; a run in which a step fails prints nothing.
C7_EmitOnceComplete ==
  /\ Len(out) <= 1
  /\ err # "none" => out = <<>>
  /\ out # <<>> =>
       /\ \A l \in {"L24", "L25", "L28", "L52", "L53", "L57", "L66"} : InTrace(l)
       /\ InTrace("L80") \/ InTrace("L82")
       /\ InTrace("L91") \/ InTrace("L93")
       /\ loc.temperature.ty = "float"
       /\ loc.pressure.ty \in {"float", "int"}
       /\ loc.humidity.ty \in {"float", "int"}
       /\ out = <<Reading(loc)>>

\* a run that ended having printed its one reading
C7_Witness ==
  /\ pc = "exit"
  /\ err = "none"
  /\ Len(out) = 1
  /\ out[1].temperature.ty = "float"

\* C9: a run that prints has made exactly these bus calls in this order:
\* read 0x88/26, read 0xE1/7, write 0xF2, write 0xF4, read 0xF7/8, and has
\* decoded between the calibration reads and the writes and computed t_fine
\* and temperature, then pressure, then humidity, then printed.  In every
\* run the raw burst is not read before the trigger write, and no pressure
\* or humidity line runs before line 65 has set t_fine.
C9_FixedOrder ==
  /\ out # <<>> =>
       /\ SubSeq(busLog, 1, 5) =
            <<[op |-> "read", reg |-> 136, arg |-> 26, on |-> "open"],
              [op |-> "read", reg |-> 225, arg |-> 7, on |-> "open"],
              [op |-> "write", reg |-> 242, arg |-> 1, on |-> "open"],
              [op |-> "write", reg |-> 244, arg |-> 37, on |-> "open"],
              [op |-> "read", reg |-> 247, arg |-> 8, on |-> "open"]>>
       /\ \A i \in 6..Len(busLog) : busLog[i].op = "close"
       /\ \E p \in {"L80", "L82"}, q \in {"L91", "L93"} :
            SelectSeq(trace, IsMilestone) =
              <<"L24", "L25", "L28", "L52", "L53", "L57", "L65", "L66", p, q, "L95">>
  /\ \A i \in Calls("read", 247) : \E j \in Calls("write", 244) : j < i
  /\ \A i \in Calls("write", 244) : \E j \in Calls("write", 242) : j < i
  /\ \A j \in 1..Len(trace) :
       trace[j] \in {"L69", "L70", "L71", "L72", "L73", "L74", "L75", "L76", "L77",
                     "L78", "L79", "L80", "L82", "L85", "L86", "L87", "L90", "L91",
                     "L93"}
         => \E i \in 1..(j - 1) : trace[i] = "L65"

\* a run that printed after taking the division branch and the polynomial
C9_Witness ==
  /\ pc = "exit"
  /\ out # <<>>
  /\ InTrace("L80")
  /\ InTrace("L91")

\* C10: every bus call, the close included, is made on the open bus, so
\* nothing follows the close and the bus is closed at most once; a run that
\* opened the bus has closed it exactly once when it ends, printed or failed.
C10_BusClosedOnce ==
  /\ \A i \in 1..Len(busLog) : busLog[i].on = "open"
  /\ Cardinality(Calls("close", 0)) <= 1
  /\ (pc = "exit" /\ bus # "none") =>
       /\ bus = "closed"
       /\ Cardinality(Calls("close", 0)) = 1
       /\ busLog[Len(busLog)].op = "close"

\* a run that failed at the raw burst read and ended with the bus closed
C10_Witness ==
  /\ pc = "exit"
  /\ err = "OSError"
  /\ Calls("read", 247) # {}
  /\ bus = "closed"

====
